---------------------------- MODULE Spec2Model ----------------------------
(***************************************************************************)
(* Ledger and payment reconciliation of the wallet backend.                *)
(*                                                                         *)
(* The committed store holds the wallets and transactions tables.  Every   *)
(* request runs in its own database session (get_db): the session keeps    *)
(* its own copies of the rows it loaded, changes them in memory, and only  *)
(* a commit writes the changed attributes to the store.  Closing a         *)
(* session discards whatever was not committed.  One step of the model is  *)
(* the code of a handler from one store access to the next.                *)
(*                                                                         *)
(* Decimal amounts are integers counting thousandths of a naira, so that   *)
(* an amount with three fractional digits can be written down.             *)
(***************************************************************************)
EXTENDS Integers, Sequences, FiniteSets, TLC

VARIABLES
    wallets,        \* committed wallets table: wallet id -> row
    transactions,   \* committed transactions table: row id -> row
    slots,          \* the requests in flight, each with its session's copies
    credits,        \* history: per transaction row, the credits committed for it
    api_keys,       \* committed api_keys table: key id -> row
    now,            \* the clock, in hours
    calls           \* the API key requests in flight

vars == <<wallets, transactions, slots, credits, api_keys, now, calls>>

\* the tables and requests of the ledger, and those of the API keys
ledger == <<wallets, transactions, slots, credits>>
keys == <<api_keys, now, calls>>

----------------------------------------------------------------------------
(* Bounds of the model *)

NumSlots == 2
MaxDeposits == 2
MaxTransfers == 2
MaxCredits == 2
MaxKeys == 6
MaxTime == 1
MaxShort == 1
MaxRevoked == 1
MaxUsed == 1
MaxCodeKeys == 3

(* Program constants, in thousandths of a naira *)

max_amount == 1000000000
min_deposit == 50000
MAX_ACTIVE_KEYS == 5

----------------------------------------------------------------------------
Naira(n) == n * 1000

Users == {1, 2}
\* the users who fund their wallet through the gateway, and the users who
\* order transfers
Depositors == {1}
Senders == {1}
Slots == 1..NumSlots

\* amounts a caller may send: valid ones, one below the deposit floor and
\* one with three fractional digits
DepositAmounts == {Naira(50), Naira(20), Naira(60) + 5}
TransferAmounts == {Naira(30), Naira(30) + 5}
WebhookEvents == {"charge.success", "charge.failed"}

\* amounts at the edges of the validation: nothing and less than nothing,
\* one kobo below the deposit floor and the floor itself, three fractional
\* digits, the maximum and one kobo more
BoundaryAmounts ==
    {0, 0 - Naira(50), Naira(50) - 10, Naira(50), Naira(50) + 5,
     max_amount, max_amount + 10}

NoRef == [kind |-> "none", user |-> 0, stamp |-> 0]
UnknownRef == [kind |-> "deposit", user |-> 0, stamp |-> 0]

\* an expiry code is a number of units; the units of the grammar are H, D, M
\* and Y (here H, one hour being one tick of the clock), " " is matched by
\* the pattern but is no unit, and "?" stands for a code the pattern refuses
NoExpiry == [amount |-> 0, unit |-> "?"]

\* plain is the plaintext a caller presents, secret the plaintext a response
\* carries; 0 is none
IdleCall ==
    [op |-> "idle", pc |-> "idle", result |-> "none", user |-> 0, key |-> 0,
     count |-> 0, expiry |-> NoExpiry, revoked |-> FALSE, plain |-> 0,
     secret |-> 0, permissions |-> {}]

IdleSlot ==
    [kind |-> "idle", pc |-> "idle", result |-> "none",
     user |-> 0, amount |-> 0,
     sender |-> 0, recipient |-> 0, sbal |-> 0, rbal |-> 0,
     sender_before |-> 0, recipient_before |-> 0,
     reference |-> NoRef, event |-> "none", kobo |-> 0,
     tx |-> 0, txstatus |-> "none",
     wallet |-> 0, wbal |-> 0, wallet_before |-> 0,
     signature |-> "none"]

----------------------------------------------------------------------------
(* Pure functions *)

ValidateNoMaximum(amount) ==
    IF amount <= 0 THEN FALSE
    ELSE IF (amount \div 10) * 10 # amount THEN FALSE
    ELSE TRUE

\* utils/wallet.py validate_wallet_amount
validate_wallet_amount(amount) ==
    IF amount <= 0 THEN FALSE
    ELSE IF amount > max_amount THEN FALSE
    ELSE IF (amount \div 10) * 10 # amount THEN FALSE
    ELSE TRUE

ConvertWholeNaira(amount) == (amount \div 1000) * 100

\* PaystackService.convert_naira_to_kobo: int(amount * 100)
convert_naira_to_kobo(amount) == amount \div 10

\* PaystackService.convert_kobo_to_naira: Decimal(amount) / 100
convert_kobo_to_naira(kobo) == kobo * 10

SufficientOnlyAbove(balance, amount) == balance > amount

\* Wallet.has_sufficient_balance
has_sufficient_balance(balance, amount) == balance >= amount

CreditBalanceNegated(balance, amount) == balance - amount

\* Wallet.credit_balance: the new value of the wallet object's balance
credit_balance(balance, amount) == balance + amount

\* Wallet.debit_balance: the new value of the wallet object's balance;
\* raises when has_sufficient_balance is false
debit_raises(balance, amount) == ~has_sufficient_balance(balance, amount)
debit_balance(balance, amount) == balance - amount

\* PaystackService.generate_transaction_reference: user id, timestamp and a
\* random suffix, cut to 50 characters.  The user id takes 36 characters and
\* the timestamp 18 digits, so the cut keeps the user id and the first 13
\* digits of the timestamp (a 10 ms window) and drops the random suffix.
generate_transaction_reference(user_id, window) ==
    [kind |-> "deposit", user |-> user_id, stamp |-> window]

----------------------------------------------------------------------------
(* Views of the committed store *)

Rows == DOMAIN transactions
DepositRows == {i \in Rows : transactions[i].transaction_type = "deposit"}
TransferRows == {i \in Rows : transactions[i].transaction_type = "transfer"}
DebitRows == {i \in TransferRows : transactions[i].transfer_type = "debit"}
RowsByReference(ref) == {i \in Rows : transactions[i].reference = ref}
References == {transactions[i].reference : i \in DepositRows}
WalletsOfUser(u) == {w \in DOMAIN wallets : wallets[w].user_id = u}

Init ==
    /\ wallets = [w \in Users |-> [user_id |-> w, balance |-> 0]]
    /\ transactions = << >>
    /\ slots = [r \in Slots |-> IdleSlot]
    /\ credits = << >>
    /\ api_keys = << >>
    /\ now = 0
    /\ calls = [c \in Slots |-> IdleCall]


----------------------------------------------------------------------------
(* Sessions.  A slot holds a request's inputs, the attributes of the        *)
(* objects its session loaded (sbal, rbal, wbal, txstatus), and for the    *)
(* record the balances as they were loaded (the _before fields).           *)

\* a request of the ledger leaves the api_keys table and its requests alone
SetSlot(r, s) ==
    /\ slots' = [slots EXCEPT ![r] = s]
    /\ UNCHANGED keys

\* a new request is served by the first free slot, once the sessions of the
\* requests that have ended are closed
CanStart(r) ==
    /\ slots[r].kind = "idle"
    /\ \A q \in Slots : q < r => slots[q].kind # "idle"
    /\ \A q \in Slots : slots[q].pc # "done"

Finish(r, res) == SetSlot(r, [slots[r] EXCEPT !.pc = "done", !.result = res])

\* db/session.py get_db: the session is closed when the request ends; close
\* does not commit, so the changes the session still holds are discarded
CloseSession(r) ==
    /\ slots[r].pc = "done"
    /\ SetSlot(r, IdleSlot)
    /\ UNCHANGED <<wallets, transactions, credits>>

----------------------------------------------------------------------------
(* Transfer: TransferService *)

TransfersInFlight ==
    {q \in Slots : slots[q].kind = "transfer" /\ slots[q].pc # "done"}

\* The request loads the two Wallet objects execute_transfer is given: the
\* caller's own wallet and, with TransferService.find_recipient_wallet (a
\* SELECT by wallet number), the recipient's.  A row the session already
\* holds is not loaded twice: sender and recipient are then one object.
find_recipient_wallet(r, s, n, a) ==
    /\ CanStart(r)
    /\ Cardinality(DebitRows) + Cardinality(TransfersInFlight) < MaxTransfers
    /\ s \in DOMAIN wallets
    /\ n \in DOMAIN wallets
    /\ SetSlot(r, [IdleSlot EXCEPT !.kind = "transfer", !.pc = "execute",
                       !.user = wallets[s].user_id, !.amount = a,
                       !.sender = s, !.recipient = n,
                       !.sbal = wallets[s].balance,
                       !.rbal = wallets[n].balance,
                       !.sender_before = wallets[s].balance,
                       !.recipient_before = wallets[n].balance])
    /\ UNCHANGED <<wallets, transactions, credits>>

TransferCheckNoFunds(amount, balance, sender, recipient) ==
    IF ~validate_wallet_amount(amount) THEN "Invalid transfer amount"
    ELSE IF sender = recipient THEN "Cannot transfer to your own wallet"
    ELSE "ok"

TransferCheckSelfAllowed(amount, balance, sender, recipient) ==
    IF ~validate_wallet_amount(amount) THEN "Invalid transfer amount"
    ELSE IF amount <= 0 THEN "Transfer amount must be greater than zero"
    ELSE IF amount > balance THEN "Insufficient balance"
    ELSE "ok"

\* execute_transfer, the checks before the try block, in the code's order
TransferCheck(amount, balance, sender, recipient) ==
    IF ~validate_wallet_amount(amount) THEN "Invalid transfer amount"
    ELSE IF amount <= 0 THEN "Transfer amount must be greater than zero"
    ELSE IF amount > balance THEN "Insufficient balance"
    ELSE IF sender = recipient THEN "Cannot transfer to your own wallet"
    ELSE "ok"

\* uuid4: a reference no earlier transfer has
FreshTransferReference ==
    [kind |-> "transfer", user |-> 0, stamp |-> Cardinality(DebitRows) + 1]

\* uuid4 primary keys: ids no earlier row has
FreshDepositId == Cardinality(DepositRows) + 1
FreshTransferId == MaxDeposits + Cardinality(TransferRows) + 1

TransferRow(owner, side, amount, ref, src, dst) ==
    [user_id |-> owner, transaction_type |-> "transfer", amount |-> amount,
     reference |-> ref, status |-> "pending",
     source_wallet_id |-> src, destination_wallet_id |-> dst,
     transfer_type |-> side, failure_reason |-> "none",
     paystack_amount_kobo |-> 0]

create_debit_row_only(r, ref) ==
    LET s == slots[r] IN
    /\ transactions' = transactions @@
          (FreshTransferId :>
               TransferRow(wallets[s.sender].user_id, "debit", s.amount, ref,
                           s.sender, s.recipient))
    /\ credits' = credits @@ (FreshTransferId :> 0)

\* TransferService.create_transfer_transaction: both rows are added and
\* committed as pending
create_transfer_transaction(r, ref) ==
    LET s == slots[r] IN
    /\ transactions' = transactions @@
          (FreshTransferId :>
               TransferRow(wallets[s.sender].user_id, "debit", s.amount, ref,
                           s.sender, s.recipient)) @@
          (FreshTransferId + 1 :>
               TransferRow(wallets[s.recipient].user_id, "credit", s.amount, ref,
                           s.sender, s.recipient))
    /\ credits' = credits @@ (FreshTransferId :> 0) @@ (FreshTransferId + 1 :> 0)

\* execute_transfer when a check fails: the exception leaves the store alone
execute_transfer_rejected(r) ==
    LET s == slots[r]
        outcome == TransferCheck(s.amount, s.sbal, s.sender, s.recipient) IN
    /\ s.kind = "transfer"
    /\ s.pc = "execute"
    /\ outcome # "ok"
    /\ Finish(r, outcome)
    /\ UNCHANGED <<wallets, transactions, credits>>

\* execute_transfer when the checks pass: the two pending rows are committed,
\* then the wallet objects are debited and credited and both Transaction
\* objects are marked completed in the session; nothing is committed after
\* that, and the response is returned.
execute_transfer_accepted(r) ==
    LET s == slots[r]
        outcome == TransferCheck(s.amount, s.sbal, s.sender, s.recipient)
        ref == FreshTransferReference IN
    /\ s.kind = "transfer"
    /\ s.pc = "execute"
    /\ outcome = "ok"
    /\ create_transfer_transaction(r, ref)
    /\ IF debit_raises(s.sbal, s.amount)
       THEN SetSlot(r, [s EXCEPT !.pc = "done", !.result = "Transfer failed",
                            !.reference = ref, !.tx = FreshTransferId,
                            !.txstatus = "pending"])
       ELSE SetSlot(r, [s EXCEPT !.pc = "done", !.result = "success",
                            !.reference = ref, !.tx = FreshTransferId,
                            !.txstatus = "completed",
                            !.sbal = debit_balance(s.sbal, s.amount),
                            !.rbal = credit_balance(s.rbal, s.amount)])
    /\ UNCHANGED wallets

----------------------------------------------------------------------------
(* Deposit: wallet.py initiate_deposit and PaystackService.initialize_deposit *)

DepositCheckNoFloor(amount) ==
    IF ~validate_wallet_amount(amount) THEN "Invalid deposit amount"
    ELSE "ok"

\* initialize_deposit, the checks before the reference is generated
DepositCheck(amount) ==
    IF ~validate_wallet_amount(amount) THEN "Invalid deposit amount"
    ELSE IF amount < min_deposit THEN "Minimum deposit amount"
    ELSE "ok"

DepositRow(u, amount, ref) ==
    [user_id |-> u, transaction_type |-> "deposit", amount |-> amount,
     reference |-> ref, status |-> "pending",
     source_wallet_id |-> 0, destination_wallet_id |-> 0,
     transfer_type |-> "none", failure_reason |-> "none",
     paystack_amount_kobo |-> convert_naira_to_kobo(amount)]

\* the amount fails validation: nothing is written
initialize_deposit_rejected(r, u, a) ==
    /\ CanStart(r)
    /\ WalletsOfUser(u) # {}
    /\ DepositCheck(a) # "ok"
    /\ SetSlot(r, [IdleSlot EXCEPT !.kind = "deposit", !.pc = "done",
                       !.result = DepositCheck(a), !.amount = a])
    /\ UNCHANGED <<wallets, transactions, credits>>

\* the 10 ms window of the latest deposit reference
LastWindow ==
    IF DepositRows = {} THEN 0
    ELSE CHOOSE n \in {transactions[i].reference.stamp : i \in DepositRows} :
             \A i \in DepositRows : transactions[i].reference.stamp <= n

\* the gateway is called for a reference whose Transaction is not in the
\* store
initialize_deposit_gateway_first(r, u, a, window) ==
    /\ CanStart(r)
    /\ WalletsOfUser(u) # {}
    /\ DepositCheck(a) = "ok"
    /\ Cardinality(DepositRows) < MaxDeposits
    /\ window \in {LastWindow, LastWindow + 1} \ {0}
    /\ SetSlot(r, [IdleSlot EXCEPT !.kind = "deposit", !.pc = "gateway",
                       !.user = u, !.amount = a,
                       !.reference = generate_transaction_reference(u, window),
                       !.tx = FreshDepositId, !.txstatus = "pending"])
    /\ UNCHANGED <<wallets, transactions, credits>>

\* the pending Transaction is inserted and committed, then the gateway is
\* called.  window is the 10 ms window the reference is generated in: the
\* one of the previous deposit, or a later one.
initialize_deposit_accepted(r, u, a, window) ==
    /\ CanStart(r)
    /\ WalletsOfUser(u) # {}
    /\ DepositCheck(a) = "ok"
    /\ Cardinality(DepositRows) < MaxDeposits
    /\ window \in {LastWindow, LastWindow + 1} \ {0}
    /\ LET ref == generate_transaction_reference(u, window) IN
       /\ transactions' = transactions @@ (FreshDepositId :> DepositRow(u, a, ref))
       /\ credits' = credits @@ (FreshDepositId :> 0)
       /\ SetSlot(r, [IdleSlot EXCEPT !.kind = "deposit", !.pc = "gateway",
                          !.user = u, !.amount = a, !.reference = ref,
                          !.tx = FreshDepositId, !.txstatus = "pending"])
    /\ UNCHANGED wallets

\* the gateway opened the payment session
gateway_succeeded(r) ==
    /\ slots[r].kind = "deposit"
    /\ slots[r].pc = "gateway"
    /\ Finish(r, "success")
    /\ UNCHANGED <<wallets, transactions, credits>>

gateway_failed_unrecorded(r) ==
    /\ slots[r].kind = "deposit"
    /\ slots[r].pc = "gateway"
    /\ Finish(r, "Deposit initialization failed")
    /\ UNCHANGED <<wallets, transactions, credits>>

\* the gateway call raised: the Transaction object is set to failed with
\* the error in its metadata and committed
gateway_failed(r) ==
    LET s == slots[r] IN
    /\ s.kind = "deposit"
    /\ s.pc = "gateway"
    /\ transactions' = [transactions EXCEPT
                           ![s.tx].status = "failed",
                           ![s.tx].failure_reason = "gateway error"]
    /\ SetSlot(r, [s EXCEPT !.pc = "done", !.txstatus = "failed",
                       !.result = "Deposit initialization failed"])
    /\ UNCHANGED <<wallets, credits>>


----------------------------------------------------------------------------
(* Wallet creation: auth_route.py google_auth_callback and wallet.py       *)
(* initiate_deposit create the caller's wallet when the caller has none    *)

\* a store in which no user has a wallet yet
InitNoWallets ==
    /\ wallets = << >>
    /\ transactions = << >>
    /\ slots = [r \in Slots |-> IdleSlot]
    /\ credits = << >>
    /\ api_keys = << >>
    /\ now = 0
    /\ calls = [c \in Slots |-> IdleCall]

\* uuid4 primary key
FreshWalletId == Cardinality(DOMAIN wallets) + 1

NoUniqueConstraint(u) == TRUE

\* Wallet.user_id is declared unique: the store accepts an insert only when
\* no committed row has the user
UniqueUserId(u) == WalletsOfUser(u) = {}

\* the SELECT of the caller's wallet: a login that finds one is over, a
\* deposit that finds one goes on to initialize_deposit
wallet_select(r, u, kind) ==
    /\ CanStart(r)
    /\ IF WalletsOfUser(u) = {}
       THEN SetSlot(r, [IdleSlot EXCEPT !.kind = kind, !.user = u,
                            !.pc = "create_wallet"])
       ELSE \E w \in WalletsOfUser(u) :
                SetSlot(r, [IdleSlot EXCEPT !.kind = kind, !.user = u, !.wallet = w,
                                !.pc = IF kind = "login" THEN "done" ELSE "initialize",
                                !.result = IF kind = "login" THEN "logged in" ELSE "none"])
    /\ UNCHANGED <<wallets, transactions, credits>>

\* the Wallet is added and committed; the commit raises IntegrityError when
\* the store holds a wallet of the user, and the request ends with it
wallet_insert(r) ==
    LET s == slots[r] IN
    /\ s.pc = "create_wallet"
    /\ IF UniqueUserId(s.user)
       THEN /\ wallets' = wallets @@
                              (FreshWalletId :> [user_id |-> s.user, balance |-> 0])
            /\ SetSlot(r, [s EXCEPT !.wallet = FreshWalletId,
                                !.pc = IF s.kind = "login" THEN "done" ELSE "initialize",
                                !.result = IF s.kind = "login" THEN "logged in" ELSE "none"])
       ELSE /\ SetSlot(r, [s EXCEPT !.pc = "done", !.result = "IntegrityError"])
            /\ UNCHANGED wallets
    /\ UNCHANGED <<transactions, credits>>

\* initiate_deposit once it holds the wallet: initialize_deposit validates
\* the amount, inserts and commits the pending row and calls the gateway
initialize_deposit_with_wallet(r, a, window) ==
    LET s == slots[r]
        ref == generate_transaction_reference(s.user, window) IN
    /\ s.kind = "deposit"
    /\ s.pc = "initialize"
    /\ IF DepositCheck(a) # "ok"
       THEN /\ SetSlot(r, [s EXCEPT !.pc = "done", !.result = DepositCheck(a),
                                !.amount = a])
            /\ UNCHANGED <<transactions, credits>>
       ELSE /\ Cardinality(DepositRows) < MaxDeposits
            /\ window \in {LastWindow, LastWindow + 1} \ {0}
            /\ transactions' = transactions @@
                                   (FreshDepositId :> DepositRow(s.user, a, ref))
            /\ credits' = credits @@ (FreshDepositId :> 0)
            /\ SetSlot(r, [s EXCEPT !.pc = "gateway", !.amount = a,
                                !.reference = ref, !.tx = FreshDepositId,
                                !.txstatus = "pending"])
    /\ UNCHANGED wallets

----------------------------------------------------------------------------
(* Webhook: wallet.py paystack_webhook and                                 *)
(* PaystackService.process_deposit_webhook                                 *)

\* the amounts in minor units a payload may carry
WebhookAmounts == {convert_naira_to_kobo(Naira(50)), convert_naira_to_kobo(Naira(40))}

\* the minor units of the amounts the validation lets through
BoundaryKobo ==
    {convert_naira_to_kobo(a) : a \in {b \in BoundaryAmounts : DepositCheck(b) = "ok"}}

\* the references a payload may carry: those of the store, one of no row,
\* and none at all
WebhookReferences == References \cup {UnknownRef, NoRef}

\* the x-paystack-signature header of a request: absent, the HMAC-SHA512 of
\* the body under the gateway secret, or anything else
Signatures == {"missing", "hmac", "forged"}

VerifyAcceptsAny(signature_header) == TRUE

\* hmac.compare_digest(expected_signature, signature_header)
verify_paystack_webhook_signature(signature_header) ==
    signature_header = "hmac"

\* the route lets a request through to process_deposit_webhook
Verified(sig) == sig # "missing" /\ verify_paystack_webhook_signature(sig)

\* a request without the header, or with a header that does not verify, is
\* answered with an error before process_deposit_webhook is called
webhook_rejected(r, sig) ==
    /\ CanStart(r)
    /\ ~Verified(sig)
    /\ SetSlot(r, [IdleSlot EXCEPT !.kind = "webhook", !.signature = sig,
                       !.pc = "done", !.result = "error"])
    /\ UNCHANGED <<wallets, transactions, credits>>

Received(r, e, ref, k) ==
    [IdleSlot EXCEPT !.kind = "webhook", !.event = e, !.reference = ref, !.kobo = k]

EarlyExitNoEventCheck(e, ref) ==
    IF ref = NoRef \/ RowsByReference(ref) = {} THEN "error" ELSE "none"

\* how process_deposit_webhook ends before it holds a Transaction: an event
\* other than charge.success is reported as success, a payload without
\* reference or with the reference of no row as failure
EarlyExit(e, ref) ==
    IF e # "charge.success" THEN "success"
    ELSE IF ref = NoRef \/ RowsByReference(ref) = {} THEN "error"
    ELSE "none"

\* an event other than charge.success is ignored and reported as success
webhook_ignored(r, sig, e, ref, k) ==
    /\ CanStart(r)
    /\ Verified(sig)
    /\ e # "charge.success"
    /\ EarlyExit(e, ref) # "none"
    /\ SetSlot(r, [IdleSlot EXCEPT !.kind = "webhook", !.event = e,
                       !.signature = sig,
                       !.pc = "done", !.result = EarlyExit(e, ref)])
    /\ UNCHANGED <<wallets, transactions, credits>>

\* the payload has no reference, or the SELECT by reference finds no row
webhook_not_found(r, sig, e, ref, k) ==
    /\ CanStart(r)
    /\ Verified(sig)
    /\ e = "charge.success"
    /\ EarlyExit(e, ref) # "none"
    /\ SetSlot(r, [IdleSlot EXCEPT !.kind = "webhook", !.event = e,
                       !.signature = sig, !.reference = ref,
                       !.pc = "done", !.result = EarlyExit(e, ref)])
    /\ UNCHANGED <<wallets, transactions, credits>>

\* where process_deposit_webhook goes once it holds the Transaction object
AfterLookup(status, amount, k) ==
    IF status = "completed" THEN "done"
    ELSE IF convert_kobo_to_naira(k) # amount THEN "mismatch"
    ELSE "find_wallet"

\* the webhook requests that are about to credit a wallet
CreditsInFlight ==
    {q \in Slots : slots[q].kind = "webhook" /\ slots[q].pc \in {"find_wallet", "credit"}}

\* the sum of f over the finite set S
RECURSIVE Sum(_, _)
Sum(f, S) ==
    IF S = {} THEN 0
    ELSE LET x == CHOOSE y \in S : TRUE IN f[x] + Sum(f, S \ {x})

\* the credits committed so far
SumCredits == Sum(credits, DOMAIN credits)

\* the SELECT by reference returns a row: first() of a query without ORDER
\* BY, so any of the rows that carry the reference.  A completed Transaction
\* ends the call with success; otherwise the amounts are compared.
webhook_lookup(r, sig, e, ref, k, i) ==
    /\ CanStart(r)
    /\ Verified(sig)
    /\ EarlyExit(e, ref) = "none"
    /\ ref # NoRef
    /\ i \in RowsByReference(ref)
    /\ SumCredits + Cardinality(CreditsInFlight) < MaxCredits
    /\ LET t == transactions[i]
           next == AfterLookup(t.status, t.amount, k) IN
       SetSlot(r, [Received(r, e, ref, k) EXCEPT
                       !.signature = sig,
                       !.pc = next,
                       !.result = IF next = "done" THEN "success" ELSE "none",
                       !.tx = i, !.txstatus = t.status,
                       !.user = t.user_id, !.amount = t.amount])
    /\ UNCHANGED <<wallets, transactions, credits>>

\* amount mismatch: the Transaction object is set to failed with the reason
\* in its metadata and committed.  The commit writes the attributes that
\* differ from what the session loaded.
MismatchKeepsStatus(t) == t

MarkMismatch(t) ==
    [t EXCEPT !.status = "failed", !.failure_reason = "Amount mismatch"]

webhook_amount_mismatch(r) ==
    LET s == slots[r] IN
    /\ s.kind = "webhook"
    /\ s.pc = "mismatch"
    /\ transactions' = [transactions EXCEPT ![s.tx] = MarkMismatch(@)]
    /\ SetSlot(r, [s EXCEPT !.pc = "done", !.result = "error",
                       !.txstatus = "failed"])
    /\ UNCHANGED <<wallets, credits>>

\* the SELECT of the depositor's wallet.  Without a wallet the Transaction
\* is set to failed and committed.
webhook_find_wallet(r) ==
    LET s == slots[r]
        found == WalletsOfUser(s.user) IN
    /\ s.kind = "webhook"
    /\ s.pc = "find_wallet"
    /\ IF found = {}
       THEN /\ transactions' = [transactions EXCEPT ![s.tx].status = "failed"]
            /\ SetSlot(r, [s EXCEPT !.pc = "done", !.result = "error",
                               !.txstatus = "failed"])
       ELSE /\ \E w \in found :
                  SetSlot(r, [s EXCEPT !.pc = "credit", !.wallet = w,
                                  !.wbal = wallets[w].balance,
                                  !.wallet_before = wallets[w].balance])
            /\ UNCHANGED transactions
    /\ UNCHANGED <<wallets, credits>>

\* the request ends with success and nothing committed
webhook_credit_uncommitted(r) ==
    /\ slots[r].kind = "webhook"
    /\ slots[r].pc = "credit"
    /\ Finish(r, "success")
    /\ UNCHANGED <<wallets, transactions, credits>>

\* the wallet object is credited, the Transaction object marked completed,
\* and the commit writes the wallet's new balance and the status together
webhook_credit(r) ==
    LET s == slots[r]
        balance == credit_balance(s.wbal, s.amount) IN
    /\ s.kind = "webhook"
    /\ s.pc = "credit"
    /\ wallets' = [wallets EXCEPT ![s.wallet].balance = balance]
    /\ transactions' = [transactions EXCEPT ![s.tx].status = "completed"]
    /\ credits' = [credits EXCEPT ![s.tx] = @ + 1]
    /\ SetSlot(r, [s EXCEPT !.pc = "done", !.result = "success",
                       !.txstatus = "completed", !.wbal = balance])

\* the commit of the credit raises: the session is rolled back, the except
\* branch sets the Transaction object to failed and commits again.  When
\* that commit goes through (stored) the row is failed; when it raises too,
\* nothing is written and the route answers with an error.
webhook_credit_raises(r, stored) ==
    LET s == slots[r] IN
    /\ s.kind = "webhook"
    /\ s.pc = "credit"
    /\ transactions' = IF stored
                       THEN [transactions EXCEPT ![s.tx].status = "failed"]
                       ELSE transactions
    /\ SetSlot(r, [s EXCEPT !.pc = "done", !.result = "error",
                       !.txstatus = "failed", !.wbal = s.wallet_before])
    /\ UNCHANGED <<wallets, credits>>

----------------------------------------------------------------------------
(* API keys: APIKeyService, models/api_key.py, utils/expiry.py             *)

\* the users who create keys; every user may name a key in a call
KeyOwners == {1}

\* the expiry codes a caller may send
ExpirySpecs ==
    {[amount |-> 1, unit |-> "H"], [amount |-> 5, unit |-> "H"],
     [amount |-> 1, unit |-> " "]}

\* the codes at the edges of the grammar.  A code is the number its leading
\* digits spell (-1 when it has none) and the text that follows them.
ExpiryCodes ==
    {[amount |-> 1, unit |-> "H"], [amount |-> 2, unit |-> "D"],
     [amount |-> 3, unit |-> "M"], [amount |-> 4, unit |-> "Y"],
     [amount |-> 2, unit |-> "h"], [amount |-> 1, unit |-> " "],
     [amount |-> 1, unit |-> "X"], [amount |-> 1, unit |-> "HH"],
     [amount |-> 1, unit |-> ""], [amount |-> -1, unit |-> "H"],
     [amount |-> -1, unit |-> ""]}

KeepCase(unit) == unit

\* str.upper on the text after the digits
Upper(unit) ==
    CASE unit = "h" -> "H"
      [] unit = "d" -> "D"
      [] unit = "m" -> "M"
      [] unit = "y" -> "Y"
      [] OTHER -> unit

\* the hours of a unit: timedelta(hours), timedelta(days), and
\* relativedelta(months) and relativedelta(years) for a month of 30 days
\* and a year of 365
HoursOf(unit) ==
    CASE unit = "H" -> 1
      [] unit = "D" -> 24
      [] unit = "M" -> 720
      [] unit = "Y" -> 8760

\* utils/expiry.py: the code is upper-cased and matched against
\* ^(\d+)([HD MY])$, which accepts H, D, " ", M and Y after the digits; a
\* unit that is none of H, D, M, Y raises ValueError like a code the pattern
\* refuses
validate_expiry_format(x) ==
    /\ x.amount >= 0
    /\ Upper(x.unit) \in {"H", "D", " ", "M", "Y"}
    /\ Upper(x.unit) \in {"H", "D", "M", "Y"}

\* now + timedelta or relativedelta of the amount
parse_expiry(x, t) == t + x.amount * HoursOf(Upper(x.unit))

\* the secret of a key is its own: the n-th key issued has plaintext n
generate_api_key(n) == n

StorePlaintext(plain) == <<"plain", plain>>

\* the argon2 digest of a plaintext
hash_api_key(plain) == <<"argon2", plain>>

verify_api_key(plain, hashed_key) == hashed_key = <<"argon2", plain>>

\* a key id and a plaintext that belong to no row
UnknownKey == 0

ExpiredAndNotRevoked(k, t) == t >= k.expires_at /\ ~k.revoked

\* APIKey.is_expired and APIKey.is_active
is_expired(k, t) == t >= k.expires_at

is_active(k, t) == ~k.revoked /\ ~is_expired(k, t)

RevokeRenews(k, t) ==
    [k EXCEPT !.revoked = TRUE, !.revoked_at = t, !.expires_at = t + 1]

\* APIKey.revoke
revoke(k, t) == [k EXCEPT !.revoked = TRUE, !.revoked_at = t]

\* the rows the SELECT of get_active_api_keys_count returns
ActiveKeys(u, t) ==
    {i \in DOMAIN api_keys :
        /\ api_keys[i].user_id = u
        /\ ~api_keys[i].revoked
        /\ api_keys[i].expires_at > t}

get_active_api_keys_count(u, t) == Cardinality(ActiveKeys(u, t))

LimitNeverReached(active_count) == FALSE

\* active_count >= APIKeyService.MAX_ACTIVE_KEYS
LimitReached(active_count) == active_count >= MAX_ACTIVE_KEYS

SelectsRevokedToo(t) == {i \in DOMAIN api_keys : api_keys[i].expires_at > t}

\* the rows the SELECT of validate_api_key returns
SelectValid(t) ==
    {i \in DOMAIN api_keys : ~api_keys[i].revoked /\ api_keys[i].expires_at > t}

AlwaysRevoke(revoked) == TRUE

\* revoke_api_key stamps and commits only a key that is not yet revoked
NeedsRevoke(revoked) == ~revoked

\* a new row; revoked_at and last_used_at are NULL (-1), and lifetime, which
\* is no column, records the amount of the expiry code
NewKey(u, n, expires_at) ==
    [user_id |-> u, hashed_key |-> hash_api_key(generate_api_key(n)),
     expires_at |-> expires_at, revoked |-> FALSE, revoked_at |-> -1,
     last_used_at |-> -1, lifetime |-> 0, permissions |-> {}]

FreshKeyId == Cardinality(DOMAIN api_keys) + 1

SetCall(c, v) ==
    /\ calls' = [calls EXCEPT ![c] = v]
    /\ UNCHANGED ledger

Return(c, res) == [calls[c] EXCEPT !.pc = "done", !.result = res]

\* a new call is served by the first free slot, once the sessions of the
\* calls that have ended are closed
CanStartCall(c) ==
    /\ calls[c].op = "idle"
    /\ \A q \in Slots : q < c => calls[q].op # "idle"
    /\ \A q \in Slots : calls[q].pc # "done"

\* the calls that are about to insert a key
InsertsInFlight == {q \in Slots : calls[q].pc = "insert"}

HasRoomForKey == Cardinality(DOMAIN api_keys) + Cardinality(InsertsInFlight) < MaxKeys

\* the keys issued and being issued with the shortest lifetime
ShortLived ==
    Cardinality({i \in DOMAIN api_keys : api_keys[i].lifetime = 1})
        + Cardinality({q \in InsertsInFlight : calls[q].expiry.amount = 1})

\* a call that will be refused for the limit inserts nothing
HasRoomFor(u, x) ==
    \/ HasRoomForKey /\ (x.amount = 1 => ShortLived < MaxShort)
    \/ LimitReached(get_active_api_keys_count(u, now))

RevokedKeys == {i \in DOMAIN api_keys : api_keys[i].revoked}

RevokesInFlight == {q \in Slots : calls[q].pc = "revoke" /\ ~calls[q].revoked}

UsedKeys == {i \in DOMAIN api_keys : api_keys[i].last_used_at # -1}

StampsInFlight == {q \in Slots : calls[q].pc = "stamp"}

\* create_api_key with an expiry code that does not parse
create_api_key_invalid(c, u, x) ==
    /\ CanStartCall(c)
    /\ ~validate_expiry_format(x)
    /\ SetCall(c, [IdleCall EXCEPT !.op = "create", !.user = u, !.expiry = x,
                       !.pc = "done", !.result = "Invalid expiry format"])
    /\ UNCHANGED <<api_keys, now>>

\* the permission sets a caller may ask for, and the one the callers of
\* the larger specifications ask for
PermissionSets == {{"deposit"}, {"deposit", "transfer"}}
UsualPermissions == {"read"}

\* create_api_key up to the count of the user's active keys
create_api_key_with(c, u, x, p) ==
    /\ CanStartCall(c)
    /\ HasRoomFor(u, x)
    /\ validate_expiry_format(x)
    /\ SetCall(c, [IdleCall EXCEPT !.op = "create", !.user = u, !.expiry = x,
                       !.pc = "insert", !.permissions = p,
                       !.count = get_active_api_keys_count(u, now)])
    /\ UNCHANGED <<api_keys, now>>

create_api_key_count(c, u, x) == create_api_key_with(c, u, x, UsualPermissions)

RolloverCheckAnyKey(u, k, x, t) ==
    IF ~validate_expiry_format(x) THEN "Invalid expiry format"
    ELSE IF k \notin DOMAIN api_keys \/ api_keys[k].user_id # u
         THEN "Expired API key not found"
    ELSE "ok"

\* how rollover_api_key ends before it counts the active keys
RolloverCheck(u, k, x, t) ==
    IF ~validate_expiry_format(x) THEN "Invalid expiry format"
    ELSE IF k \notin DOMAIN api_keys \/ api_keys[k].user_id # u
         THEN "Expired API key not found"
    ELSE IF ~is_expired(api_keys[k], t) THEN "Key must be expired to rollover"
    ELSE "ok"

rollover_api_key_rejected(c, u, k, x) ==
    /\ CanStartCall(c)
    /\ RolloverCheck(u, k, x, now) # "ok"
    /\ SetCall(c, [IdleCall EXCEPT !.op = "rollover", !.user = u, !.key = k,
                       !.expiry = x, !.pc = "done",
                       !.result = RolloverCheck(u, k, x, now)])
    /\ UNCHANGED <<api_keys, now>>

RolloverDefaultPermissions(k) == {}

\* permissions = expired_key.permissions
ReusedPermissions(k) == api_keys[k].permissions

\* rollover_api_key up to the count of the user's active keys
rollover_api_key_count(c, u, k, x) ==
    /\ CanStartCall(c)
    /\ HasRoomFor(u, x)
    /\ RolloverCheck(u, k, x, now) = "ok"
    /\ SetCall(c, [IdleCall EXCEPT !.op = "rollover", !.user = u, !.key = k,
                       !.expiry = x, !.pc = "insert",
                       !.permissions = ReusedPermissions(k),
                       !.count = get_active_api_keys_count(u, now)])
    /\ UNCHANGED <<api_keys, now>>

\* create_api_key and rollover_api_key from the limit check on: the count
\* taken earlier is compared with the limit, then the key is inserted and
\* committed
api_key_insert(c) ==
    LET v == calls[c]
        n == FreshKeyId IN
    /\ v.pc = "insert"
    /\ IF LimitReached(v.count)
       THEN /\ SetCall(c, [Return(c, "Maximum active API keys") EXCEPT !.key = 0])
            /\ UNCHANGED api_keys
       ELSE /\ api_keys' = api_keys @@
                               (n :> [NewKey(v.user, n, parse_expiry(v.expiry, now))
                                          EXCEPT !.lifetime = v.expiry.amount,
                                                 !.permissions = v.permissions])
            /\ SetCall(c, [Return(c, "created") EXCEPT
                               !.key = n, !.secret = generate_api_key(n)])
    /\ UNCHANGED now

\* revoke_api_key: the SELECT by id and owner
revoke_api_key_select(c, u, k) ==
    /\ CanStartCall(c)
    /\ IF k \notin DOMAIN api_keys \/ api_keys[k].user_id # u
       THEN SetCall(c, [IdleCall EXCEPT !.op = "revoke", !.user = u, !.key = k,
                            !.pc = "done", !.result = "API key not found"])
       ELSE /\ api_keys[k].revoked
                  \/ Cardinality(RevokedKeys) + Cardinality(RevokesInFlight) < MaxRevoked
            /\ SetCall(c, [IdleCall EXCEPT !.op = "revoke", !.user = u, !.key = k,
                               !.pc = "revoke", !.revoked = api_keys[k].revoked])
    /\ UNCHANGED <<api_keys, now>>

\* revoke_api_key: a key object that is not revoked is revoked and committed;
\* the commit writes revoked and revoked_at
revoke_api_key(c) ==
    LET v == calls[c] IN
    /\ v.pc = "revoke"
    /\ api_keys' = IF NeedsRevoke(v.revoked)
                   THEN [api_keys EXCEPT ![v.key] = revoke(@, now)]
                   ELSE api_keys
    /\ SetCall(c, [Return(c, "revoked") EXCEPT !.revoked = TRUE])
    /\ UNCHANGED now

\* validate_api_key: the SELECT of the keys that are neither revoked nor
\* expired and the search for the one whose hash the plaintext verifies
validate_api_key_select(c, plain) ==
    LET found == {i \in SelectValid(now) :
                     verify_api_key(plain, api_keys[i].hashed_key)} IN
    /\ CanStartCall(c)
    /\ IF found = {}
       THEN SetCall(c, [IdleCall EXCEPT !.op = "validate", !.plain = plain,
                            !.pc = "done", !.result = "Invalid API key"])
       ELSE \E i \in found :
                /\ i \in UsedKeys
                      \/ Cardinality(UsedKeys) + Cardinality(StampsInFlight) < MaxUsed
                /\ SetCall(c, [IdleCall EXCEPT !.op = "validate", !.plain = plain,
                                   !.pc = "stamp", !.key = i,
                                   !.user = api_keys[i].user_id,
                                   !.revoked = api_keys[i].revoked])
    /\ UNCHANGED <<api_keys, now>>

validate_api_key_unstamped(c) ==
    LET v == calls[c]
        k == api_keys[v.key] IN
    /\ v.pc = "stamp"
    /\ SetCall(c, Return(c, IF ~v.revoked /\ ~is_expired(k, now)
                            THEN "valid" ELSE "API key is inactive"))
    /\ UNCHANGED <<api_keys, now>>

\* validate_api_key: last_used_at is stamped and committed and the key is
\* returned; get_api_key_user then asks the key object whether it is active
validate_api_key_stamp(c) ==
    LET v == calls[c]
        k == api_keys[v.key] IN
    /\ v.pc = "stamp"
    /\ api_keys' = [api_keys EXCEPT ![v.key].last_used_at = now]
    /\ SetCall(c, Return(c, IF ~v.revoked /\ ~is_expired(k, now)
                            THEN "valid" ELSE "API key is inactive"))
    /\ UNCHANGED now

\* get_user_api_keys and list_api_keys: the caller's rows are selected and
\* answered as APIKeyResponse objects, which have no field for the secret
\* nor for its hash
get_user_api_keys(c, u) ==
    /\ CanStartCall(c)
    /\ SetCall(c, [IdleCall EXCEPT !.op = "list", !.user = u, !.pc = "done",
                       !.result = "listed",
                       !.count = Cardinality({i \in DOMAIN api_keys :
                                                 api_keys[i].user_id = u})])
    /\ UNCHANGED <<api_keys, now>>

\* get_db: the session of a call that has ended is closed
CloseCall(c) ==
    /\ calls[c].pc = "done"
    /\ SetCall(c, IdleCall)
    /\ UNCHANGED <<api_keys, now>>

\* an hour passes
Tick ==
    /\ now < MaxTime
    /\ now' = now + 1
    /\ UNCHANGED <<api_keys, calls>>
    /\ UNCHANGED ledger

----------------------------------------------------------------------------
(* Specifications *)

Step(r) ==
    \/ \E s \in Senders, n \in Users, a \in TransferAmounts :
           find_recipient_wallet(r, s, n, a)
    \/ execute_transfer_rejected(r)
    \/ execute_transfer_accepted(r)
    \/ \E u \in Depositors, a \in DepositAmounts : initialize_deposit_rejected(r, u, a)
    \/ \E u \in Depositors, a \in DepositAmounts, window \in 1..MaxDeposits :
           initialize_deposit_accepted(r, u, a, window)
    \/ gateway_succeeded(r)
    \/ gateway_failed(r)
    \/ \E sig \in Signatures : webhook_rejected(r, sig)
    \/ \E sig \in Signatures, e \in WebhookEvents, ref \in WebhookReferences,
           k \in WebhookAmounts :
           \/ webhook_ignored(r, sig, e, ref, k)
           \/ webhook_not_found(r, sig, e, ref, k)
           \/ \E i \in Rows : webhook_lookup(r, sig, e, ref, k, i)
    \/ webhook_amount_mismatch(r)
    \/ webhook_find_wallet(r)
    \/ webhook_credit(r)
    \/ CloseSession(r)

\* requests are served concurrently: any request in flight may take its
\* next step
Next == \E r \in Slots : Step(r)

Spec == Init /\ [][Next]_vars

\* deposits and their notifications, served concurrently
DepositStep(r) ==
    \/ \E u \in Depositors, a \in DepositAmounts : initialize_deposit_rejected(r, u, a)
    \/ \E u \in Depositors, a \in DepositAmounts, window \in 1..MaxDeposits :
           initialize_deposit_accepted(r, u, a, window)
    \/ gateway_succeeded(r)
    \/ gateway_failed(r)
    \/ \E sig \in Signatures : webhook_rejected(r, sig)
    \/ \E sig \in Signatures, e \in WebhookEvents, ref \in WebhookReferences,
           k \in WebhookAmounts :
           \/ webhook_ignored(r, sig, e, ref, k)
           \/ webhook_not_found(r, sig, e, ref, k)
           \/ \E i \in Rows : webhook_lookup(r, sig, e, ref, k, i)
    \/ webhook_amount_mismatch(r)
    \/ webhook_find_wallet(r)
    \/ webhook_credit(r)
    \/ CloseSession(r)

DepositNext == \E r \in Slots : DepositStep(r)

\* the steps of a request that is being served: each is the continuation of
\* a coroutine after an await on the store or the gateway, which the event
\* loop resumes once the awaited call has returned
Continue(r) ==
    \/ gateway_succeeded(r)
    \/ gateway_failed(r)
    \/ webhook_amount_mismatch(r)
    \/ webhook_find_wallet(r)
    \/ webhook_credit(r)
    \/ CloseSession(r)

\* every request that is being served is eventually resumed
SpecFair == Init /\ [][DepositNext]_vars /\ \A r \in Slots : WF_vars(Continue(r))

\* requests are served one after another
Alone(r) == \A q \in Slots \ {r} : slots[q].kind = "idle"

SeqNext == \E r \in Slots : Alone(r) /\ Step(r)

SpecSeq == Init /\ [][SeqNext]_vars

\* requests are served one after another and a signed notification may also
\* carry the reference of a transfer: process_deposit_webhook selects the
\* Transaction by its reference alone
TransferReferences == {transactions[i].reference : i \in TransferRows}

\* the minor units such a notification carries: those of a transfer amount
\* and those of another amount
TransferKobo == {convert_naira_to_kobo(Naira(30)), convert_naira_to_kobo(Naira(50))}

TransferRefStep(r) ==
    \/ Step(r)
    \/ \E sig \in Signatures, e \in WebhookEvents, ref \in TransferReferences,
           k \in TransferKobo, i \in Rows :
           webhook_lookup(r, sig, e, ref, k, i)

TransferRefNext == \E r \in Slots : Alone(r) /\ TransferRefStep(r)

SpecTransferRefs == Init /\ [][TransferRefNext]_vars

\* requests are served one after another and a commit of the store may raise
FaultStep(r) ==
    \/ Step(r)
    \/ \E stored \in BOOLEAN : webhook_credit_raises(r, stored)

FaultNext == \E r \in Slots : Alone(r) /\ FaultStep(r)

SpecFaults == Init /\ [][FaultNext]_vars

\* requests are served one after another and callers send amounts at the
\* edges of the validation; the gateway notifies of the amount it was asked
\* to charge, or of another one
BoundaryStep(r) ==
    \/ \E s \in Senders, n \in Users, a \in BoundaryAmounts :
           find_recipient_wallet(r, s, n, a)
    \/ execute_transfer_rejected(r)
    \/ execute_transfer_accepted(r)
    \/ \E u \in Depositors, a \in BoundaryAmounts : initialize_deposit_rejected(r, u, a)
    \/ \E u \in Depositors, a \in BoundaryAmounts, window \in 1..MaxDeposits :
           initialize_deposit_accepted(r, u, a, window)
    \/ gateway_succeeded(r)
    \/ gateway_failed(r)
    \/ \E sig \in Signatures : webhook_rejected(r, sig)
    \/ \E sig \in Signatures, e \in WebhookEvents, ref \in WebhookReferences,
           k \in BoundaryKobo :
           \/ webhook_ignored(r, sig, e, ref, k)
           \/ webhook_not_found(r, sig, e, ref, k)
           \/ \E i \in Rows : webhook_lookup(r, sig, e, ref, k, i)
    \/ webhook_amount_mismatch(r)
    \/ webhook_find_wallet(r)
    \/ webhook_credit(r)
    \/ CloseSession(r)

BoundaryNext == \E r \in Slots : Alone(r) /\ BoundaryStep(r)

SpecBoundary == Init /\ [][BoundaryNext]_vars

\* logins and deposits of users who may have no wallet yet, served
\* concurrently
WalletStep(r) ==
    \/ \E u \in Users, kind \in {"login", "deposit"} : wallet_select(r, u, kind)
    \/ wallet_insert(r)
    \/ \E a \in DepositAmounts, window \in 1..MaxDeposits :
           initialize_deposit_with_wallet(r, a, window)
    \/ gateway_succeeded(r)
    \/ gateway_failed(r)
    \/ CloseSession(r)

WalletNext == \E r \in Slots : WalletStep(r)

SpecWallets == InitNoWallets /\ [][WalletNext]_vars

\* Four users with a wallet each; the first and the third have funded
\* theirs with one completed deposit of 50.00.
FourWallets ==
    [w \in 1..4 |-> [user_id |-> w,
                     balance |-> IF w \in {1, 3} THEN Naira(50) ELSE 0]]

InitFourWallets ==
    /\ wallets = FourWallets
    /\ transactions =
           (1 :> [DepositRow(1, Naira(50), generate_transaction_reference(1, 1))
                      EXCEPT !.status = "completed"])
           @@ (2 :> [DepositRow(3, Naira(50), generate_transaction_reference(3, 1))
                         EXCEPT !.status = "completed"])
    /\ slots = [r \in Slots |-> IdleSlot]
    /\ credits = (1 :> 1) @@ (2 :> 1)
    /\ api_keys = << >>
    /\ now = 0
    /\ calls = [c \in Slots |-> IdleCall]

\* the two transfers: from the first wallet to the second, from the third
\* to the fourth
DisjointPairs == {<<1, 2>>, <<3, 4>>}

\* the amounts of the two transfers: within the balance, all of it, more
\* than it, and one the validation refuses
DisjointAmounts == {Naira(30), Naira(50), Naira(60), Naira(30) + 5}

\* a transfer that has been ordered and is not over, or has left its rows
Ordered(s) ==
    \/ \E q \in Slots : slots[q].kind = "transfer" /\ slots[q].sender = s
    \/ \E i \in DebitRows : transactions[i].source_wallet_id = s

\* each of the two transfers is ordered once, at any time
DisjointStep(r) ==
    \/ \E p \in DisjointPairs, a \in DisjointAmounts :
           /\ ~Ordered(p[1])
           /\ find_recipient_wallet(r, p[1], p[2], a)
    \/ execute_transfer_rejected(r)
    \/ execute_transfer_accepted(r)
    \/ CloseSession(r)

DisjointNext == \E r \in Slots : DisjointStep(r)

SpecDisjoint == InitFourWallets /\ [][DisjointNext]_vars

\* Wallet.debit_balance on its own: a session holds a Wallet object with
\* some balance and the method is called with some amount
DebitInputs ==
    {0, Naira(10), Naira(50) - 10, Naira(50), Naira(50) + 10, Naira(100),
     max_amount, max_amount + 10}

InitDebit ==
    /\ wallets = [w \in Users |-> [user_id |-> w, balance |-> 0]]
    /\ transactions = << >>
    /\ \E b \in DebitInputs, a \in DebitInputs \cup {0 - Naira(10)} :
           slots = [r \in Slots |->
                       IF r = 1
                       THEN [IdleSlot EXCEPT !.kind = "debit", !.pc = "call",
                                 !.sender = 1, !.amount = a,
                                 !.sbal = b, !.sender_before = b]
                       ELSE IdleSlot]
    /\ credits = << >>
    /\ api_keys = << >>
    /\ now = 0
    /\ calls = [c \in Slots |-> IdleCall]

\* the method raises ValueError, or takes the amount off the object's balance
debit_balance_call(r) ==
    LET s == slots[r] IN
    /\ s.kind = "debit"
    /\ s.pc = "call"
    /\ IF debit_raises(s.sbal, s.amount)
       THEN Finish(r, "Insufficient wallet balance")
       ELSE SetSlot(r, [s EXCEPT !.pc = "done", !.result = "ok",
                            !.sbal = debit_balance(s.sbal, s.amount)])
    /\ UNCHANGED <<wallets, transactions, credits>>

DebitNext == \E r \in Slots : debit_balance_call(r) \/ CloseSession(r)

SpecDebit == InitDebit /\ [][DebitNext]_vars

\* the calls that issue keys
IssueStep(c) ==
    \/ \E u \in KeyOwners, x \in ExpirySpecs : create_api_key_invalid(c, u, x)
    \/ \E u \in KeyOwners, x \in ExpirySpecs : create_api_key_count(c, u, x)
    \/ \E u \in Users, k \in DOMAIN api_keys \cup {UnknownKey}, x \in ExpirySpecs :
           \/ rollover_api_key_rejected(c, u, k, x)
           \/ rollover_api_key_count(c, u, k, x)
    \/ api_key_insert(c)
    \/ CloseCall(c)

\* the calls of the API key service
KeyStep(c) ==
    \/ IssueStep(c)
    \/ \E u \in Users, k \in DOMAIN api_keys \cup {UnknownKey} :
           revoke_api_key_select(c, u, k)
    \/ revoke_api_key(c)
    \/ \E plain \in DOMAIN api_keys \cup {UnknownKey} :
           validate_api_key_select(c, plain)
    \/ validate_api_key_stamp(c)
    \/ \E u \in KeyOwners : get_user_api_keys(c, u)

\* the calls that issue keys are served concurrently while time passes
KeyNext == (\E c \in Slots : IssueStep(c)) \/ Tick

SpecKeys == Init /\ [][KeyNext]_vars

\* calls are served one after another while time passes
CallAlone(c) == \A q \in Slots \ {c} : calls[q].op = "idle"

KeySeqNext == (\E c \in Slots : CallAlone(c) /\ KeyStep(c)) \/ Tick

SpecKeysSeq == Init /\ [][KeySeqNext]_vars

\* the calls that issue keys, served one after another, with expiry codes
\* at the edges of the grammar and several permission sets
RoomForCode == Cardinality(DOMAIN api_keys) < MaxCodeKeys

CodeStep(c) ==
    \/ \E u \in KeyOwners, x \in ExpiryCodes : create_api_key_invalid(c, u, x)
    \/ \E u \in KeyOwners, x \in ExpiryCodes, p \in PermissionSets :
           RoomForCode /\ create_api_key_with(c, u, x, p)
    \/ \E u \in Users, k \in DOMAIN api_keys \cup {UnknownKey}, x \in ExpiryCodes :
           \/ rollover_api_key_rejected(c, u, k, x)
           \/ RoomForCode /\ rollover_api_key_count(c, u, k, x)
    \/ api_key_insert(c)
    \/ CloseCall(c)

CodeNext == (\E c \in Slots : CallAlone(c) /\ CodeStep(c)) \/ Tick

SpecCodes == Init /\ [][CodeNext]_vars

----------------------------------------------------------------------------
(* Properties *)

\* a request that has returned and not yet released its session
TransferSucceeded(r) ==
    /\ slots[r].kind = "transfer"
    /\ slots[r].pc = "done"
    /\ slots[r].result = "success"

WebhookCredited(r) ==
    /\ slots[r].kind = "webhook"
    /\ slots[r].pc = "done"
    /\ slots[r].result = "success"
    /\ slots[r].wallet # 0

\* the step in which execute_transfer returns
TransferReturns(r) ==
    /\ slots[r].kind = "transfer"
    /\ slots[r].pc = "execute"
    /\ slots'[r].pc = "done"

\* the step in which the webhook's credit is committed
CreditCommits(r) ==
    /\ slots[r].kind = "webhook"
    /\ slots[r].pc = "credit"
    /\ slots'[r].pc = "done"

\* C1: the committed balance of every wallet is at least zero in every
\* reachable state, under any interleaving of transfers, deposits and
\* webhook deliveries.
C1_BalanceNonNegative ==
    \A w \in DOMAIN wallets : wallets[w].balance >= 0

\* a wallet has been credited by a webhook and a transfer out of it has been
\* executed
C1_Witness ==
    \E i \in DebitRows :
        /\ wallets[transactions[i].source_wallet_id].balance > 0
        /\ \E j \in DepositRows : credits[j] > 0

\* C2: when a transfer of amount a has returned success, the committed
\* balance of the sender is the balance it had before the transfer minus a,
\* the recipient's is its balance before plus a, and their sum is unchanged.
C2_TransferMovesBalances ==
    \A r \in Slots :
        TransferSucceeded(r) =>
            LET s == slots[r] IN
            /\ wallets[s.sender].balance = s.sender_before - s.amount
            /\ wallets[s.recipient].balance = s.recipient_before + s.amount
            /\ wallets[s.sender].balance + wallets[s.recipient].balance
                   = s.sender_before + s.recipient_before

\* C3: no committed state shows a transfer partly applied: transfer rows are
\* never committed in a status other than completed.
C3_TransferAtomic ==
    \A i \in TransferRows : transactions[i].status = "completed"

\* C4: when a transfer has returned success, exactly two committed rows carry
\* its reference, one owned by the sender's user and one by the recipient's
\* user, both with the transfer's amount, source and destination wallet, and
\* both completed.
C4_TransferRows ==
    \A r \in Slots :
        TransferSucceeded(r) =>
            LET s == slots[r]
                rows == RowsByReference(s.reference) IN
            /\ Cardinality(rows) = 2
            /\ \E d \in rows, c \in rows :
                   /\ d # c
                   /\ transactions[d].user_id = wallets[s.sender].user_id
                   /\ transactions[c].user_id = wallets[s.recipient].user_id
            /\ \A i \in rows :
                   /\ transactions[i].transaction_type = "transfer"
                   /\ transactions[i].amount = s.amount
                   /\ transactions[i].source_wallet_id = s.sender
                   /\ transactions[i].destination_wallet_id = s.recipient
                   /\ transactions[i].status = "completed"

\* C5 as stated: every transfer whose amount is greater than the sender
\* wallet's balance returns the insufficient-funds error, creates no row and
\* changes no balance.
C5_AsStated ==
    [][\A r \in Slots :
          (TransferReturns(r)
              /\ slots[r].amount > wallets[slots[r].sender].balance)
          => /\ slots'[r].result = "Insufficient balance"
             /\ transactions' = transactions
             /\ wallets' = wallets]_vars

\* C5: a transfer whose amount passes the amount validation and is greater
\* than the balance of the sender wallet the request loaded returns the
\* insufficient-funds error, creates no row and changes no balance.
C5_InsufficientFunds ==
    [][\A r \in Slots :
          (TransferReturns(r)
              /\ validate_wallet_amount(slots[r].amount)
              /\ slots[r].amount > slots[r].sbal)
          => /\ slots'[r].result = "Insufficient balance"
             /\ transactions' = transactions
             /\ wallets' = wallets]_vars

\* a transfer of a valid amount above the sender's balance has been refused
C5_Witness ==
    \E r \in Slots :
        /\ slots[r].kind = "transfer"
        /\ slots[r].pc = "done"
        /\ slots[r].result = "Insufficient balance"
        /\ validate_wallet_amount(slots[r].amount)
        /\ slots[r].amount > slots[r].sender_before
        /\ slots[r].amount > wallets[slots[r].sender].balance

\* C6: two concurrent transfers from one sender never both succeed on the
\* same balance when together they exceed it.
C6_NoDoubleSpend ==
    \A r \in Slots, q \in Slots :
        ~ /\ r # q
          /\ TransferSucceeded(r)
          /\ TransferSucceeded(q)
          /\ slots[r].sender = slots[q].sender
          /\ slots[r].sender_before = slots[q].sender_before
          /\ slots[r].amount <= slots[r].sender_before
          /\ slots[q].amount <= slots[q].sender_before
          /\ slots[r].amount + slots[q].amount > slots[r].sender_before

\* C7: when a transfer involving wallet W and a webhook crediting W ran
\* concurrently from the same balance of W and both returned success, the
\* committed balance of W reflects both the credit and the transfer.
C7_BothReflected ==
    \A r \in Slots, q \in Slots :
        (TransferSucceeded(r) /\ WebhookCredited(q)) =>
            LET t == slots[r]
                h == slots[q] IN
            /\ (h.wallet = t.sender /\ h.wallet_before = t.sender_before)
                   => wallets[h.wallet].balance
                          = h.wallet_before + h.amount - t.amount
            /\ (h.wallet = t.recipient /\ h.wallet_before = t.recipient_before)
                   => wallets[h.wallet].balance
                          = h.wallet_before + h.amount + t.amount

\* C8: when a valid charge.success delivery for a pending deposit of matching
\* amount commits, the owner's wallet balance grows by exactly the recorded
\* amount, the row becomes completed in that same commit, and the handler
\* reports success.
C8_CreditsExactly ==
    [][\A r \in Slots :
          (CreditCommits(r) /\ transactions[slots[r].tx].status = "pending")
          => /\ wallets'[slots[r].wallet].balance
                    = wallets[slots[r].wallet].balance + slots[r].amount
             /\ transactions'[slots[r].tx].status = "completed"
             /\ slots'[r].result = "success"]_vars

\* C9: deliveries of one valid payload made one after another credit the
\* wallet once: the credits made for one reference never exceed one.
C9_ReplayCreditsOnce ==
    \A ref \in References :
        Sum(credits, RowsByReference(ref)) <= 1

\* C10: of two concurrent deliveries of one valid payload for one pending
\* deposit, at most one performs the credit.
C10_SingleWinner ==
    \A r \in Slots, q \in Slots :
        ~ /\ r # q
          /\ WebhookCredited(r)
          /\ WebhookCredited(q)
          /\ slots[r].tx = slots[q].tx
          /\ slots[r].reference = slots[q].reference
          /\ slots[r].kobo = slots[q].kobo
          /\ slots[r].event = slots[q].event

\* the step in which a webhook request arrives at the route
WebhookArrives(r) ==
    /\ slots[r].kind = "idle"
    /\ slots'[r].kind = "webhook"

\* a step that leaves the committed store as it is
StoreUnchanged ==
    /\ transactions' = transactions
    /\ wallets' = wallets
    /\ credits' = credits

\* C11: a deposit Transaction changes status only from pending to completed
\* or from pending to failed, and once it is completed or failed no step
\* changes its status or credits a wallet for it.
C11_DepositStateMachine ==
    [][\A i \in DepositRows :
          /\ transactions'[i].status # transactions[i].status
                 => /\ transactions[i].status = "pending"
                    /\ transactions'[i].status \in {"completed", "failed"}
          /\ transactions[i].status \in {"completed", "failed"}
                 => credits'[i] = credits[i]]_vars

\* C12: in every committed state a deposit Transaction has been credited to
\* its owner's wallet if and only if its status is completed.
C12_CreditedIffCompleted ==
    \A i \in DepositRows :
        (credits[i] > 0) <=> (transactions[i].status = "completed")

C14_UnsignedRejected ==
    [][\A r \in Slots :
          (slots'[r].kind = "webhook" /\ slots'[r].signature # "hmac")
          => /\ slots'[r].pc = "done"
             /\ slots'[r].result = "error"
             /\ slots'[r].tx = 0
             /\ WebhookArrives(r) => StoreUnchanged]_vars

\* a forged request has been refused while a deposit was pending
C14_Witness ==
    \E r \in Slots :
        /\ slots[r].kind = "webhook"
        /\ slots[r].signature = "forged"
        /\ slots[r].result = "error"
        /\ \E i \in DepositRows : transactions[i].status = "pending"

\* C15: a delivery for a pending deposit whose amount in major units differs
\* from the recorded amount is routed to the mismatch branch, which commits
\* the Transaction as failed with the reason "Amount mismatch", reports
\* failure and changes no wallet balance.
C15_AmountMismatch ==
    [][\A r \in Slots :
          /\ (/\ WebhookArrives(r)
              /\ slots'[r].tx # 0
              /\ transactions[slots'[r].tx].status = "pending"
              /\ convert_kobo_to_naira(slots'[r].kobo)
                     # transactions[slots'[r].tx].amount)
             => slots'[r].pc = "mismatch"
          /\ (/\ slots[r].kind = "webhook"
              /\ slots[r].pc = "mismatch"
              /\ slots'[r].pc = "done"
              /\ transactions[slots[r].tx].status = "pending")
             => /\ transactions'[slots[r].tx].status = "failed"
                /\ transactions'[slots[r].tx].failure_reason = "Amount mismatch"
                /\ slots'[r].result = "error"
                /\ wallets' = wallets
                /\ credits' = credits]_vars

\* a delivery of 40.00 for a deposit of 50.00 has failed the Transaction
C15_Witness ==
    \E r \in Slots :
        /\ slots[r].kind = "webhook"
        /\ slots[r].pc = "done"
        /\ slots[r].result = "error"
        /\ slots[r].tx # 0
        /\ slots[r].amount = Naira(50)
        /\ slots[r].kobo = convert_naira_to_kobo(Naira(40))
        /\ transactions[slots[r].tx].status = "failed"
        /\ transactions[slots[r].tx].failure_reason = "Amount mismatch"
        /\ credits[slots[r].tx] = 0

\* C16: a verified delivery of an event other than charge.success ends at
\* once with success, and one whose reference is missing or names no row
\* ends at once with failure; neither changes the store.
C16_EarlyExits ==
    [][\A r \in Slots :
          (WebhookArrives(r) /\ slots'[r].signature = "hmac")
          => LET s == slots'[r] IN
             /\ s.event # "charge.success"
                    => /\ s.pc = "done"
                       /\ s.result = "success"
                       /\ StoreUnchanged
             /\ (/\ s.event = "charge.success"
                 /\ s.reference = NoRef \/ RowsByReference(s.reference) = {})
                    => /\ s.pc = "done"
                       /\ s.result = "error"
                       /\ StoreUnchanged]_vars

\* a delivery with the reference of no row has been reported as failure
\* while a deposit was pending
C16_Witness ==
    \E r \in Slots :
        /\ slots[r].kind = "webhook"
        /\ slots[r].signature = "hmac"
        /\ slots[r].event = "charge.success"
        /\ slots[r].reference = UnknownRef
        /\ slots[r].pc = "done"
        /\ slots[r].result = "error"
        /\ \E i \in DepositRows : transactions[i].status = "pending"

\* the step in which create_api_key or rollover_api_key returns after its
\* count of the active keys
IssueReturns(c) ==
    /\ calls[c].pc = "insert"
    /\ calls'[c].pc = "done"

\* C17: with calls served one after another and time passing, no user ever
\* has more than 5 active keys, and a create or rollover that counted 5
\* active keys fails with the limit error and persists no key.
C17_ActiveKeyLimit ==
    [][/\ \A u \in Users : get_active_api_keys_count(u, now)' <= MAX_ACTIVE_KEYS
       /\ \A c \in Slots :
              (IssueReturns(c) /\ calls[c].count >= MAX_ACTIVE_KEYS)
              => /\ calls'[c].result = "Maximum active API keys"
                 /\ api_keys' = api_keys]_vars

\* a rollover has been refused for a user with 5 active keys and an expired
\* one
C17_Witness ==
    \E c \in Slots :
        /\ calls[c].op = "rollover"
        /\ calls[c].pc = "done"
        /\ calls[c].result = "Maximum active API keys"
        /\ get_active_api_keys_count(calls[c].user, now) = MAX_ACTIVE_KEYS
        /\ Cardinality(DOMAIN api_keys) = MAX_ACTIVE_KEYS + 1

\* C18: with create and rollover calls of one user served concurrently, the
\* user has at most 5 active keys in every committed state.
C18_ConcurrentLimit ==
    \A u \in Users : Cardinality(ActiveKeys(u, now)) <= MAX_ACTIVE_KEYS

\* C19: validate finds only a key that is active and whose hash the plaintext
\* verifies; the plaintext of a revoked or expired key is answered with
\* not-found; and a key is accepted only while it is active.
C19_ValidateOnlyActive ==
    [][\A c \in Slots :
          /\ (calls[c].op = "idle" /\ calls'[c].op = "validate")
             => LET v == calls'[c] IN
                /\ v.key # 0
                       => /\ is_active(api_keys[v.key], now)
                          /\ verify_api_key(v.plain, api_keys[v.key].hashed_key)
                /\ (/\ v.plain \in DOMAIN api_keys
                    /\ ~is_active(api_keys[v.plain], now))
                       => /\ v.pc = "done"
                          /\ v.result = "Invalid API key"
          /\ (calls[c].pc = "stamp" /\ calls'[c].result = "valid")
             => is_active(api_keys'[calls[c].key], now')]_vars

\* the plaintext of a revoked key that has not expired has been answered
\* with not-found
C19_Witness ==
    \E c \in Slots :
        /\ calls[c].op = "validate"
        /\ calls[c].pc = "done"
        /\ calls[c].result = "Invalid API key"
        /\ calls[c].plain \in DOMAIN api_keys
        /\ api_keys[calls[c].plain].revoked
        /\ api_keys[calls[c].plain].expires_at > now

\* C20: revoking a key of the caller that is not revoked sets revoked and
\* stamps revoked_at with the current time; revoking a revoked key succeeds
\* and changes nothing, so revoked_at keeps its first value.
C20_RevokeIdempotent ==
    [][\A c \in Slots :
          (calls[c].pc = "revoke" /\ calls'[c].pc = "done")
          => LET k == calls[c].key IN
             /\ calls'[c].result = "revoked"
             /\ api_keys[k].user_id = calls[c].user
             /\ api_keys[k].revoked => api_keys' = api_keys
             /\ ~api_keys[k].revoked
                    => api_keys' = [api_keys EXCEPT
                                       ![k].revoked = TRUE,
                                       ![k].revoked_at = now]]_vars

\* a key revoked an hour ago has been revoked again and keeps its stamp
C20_Witness ==
    \E c \in Slots :
        /\ calls[c].op = "revoke"
        /\ calls[c].pc = "done"
        /\ calls[c].result = "revoked"
        /\ api_keys[calls[c].key].revoked
        /\ api_keys[calls[c].key].revoked_at >= 0
        /\ api_keys[calls[c].key].revoked_at < now


\* the step in which a rollover call arrives
RolloverArrives(c) ==
    /\ calls[c].op = "idle"
    /\ calls'[c].op = "rollover"

NotOwned(k, u) == k \notin DOMAIN api_keys \/ api_keys[k].user_id # u

\* C21 as stated: a rollover that names a key which does not exist or is
\* another user's fails with "not found", and one that names a key of the
\* caller which has not expired fails with the validation error; neither
\* inserts or changes a key.
C21_AsStated ==
    [][\A c \in Slots : RolloverArrives(c) =>
          LET v == calls'[c] IN
          /\ NotOwned(v.key, v.user) =>
                 /\ v.pc = "done"
                 /\ v.result = "Expired API key not found"
                 /\ api_keys' = api_keys
          /\ (~NotOwned(v.key, v.user) /\ api_keys[v.key].expires_at > now) =>
                 /\ v.pc = "done"
                 /\ v.result \in {"Key must be expired to rollover",
                                  "Invalid expiry format"}
                 /\ api_keys' = api_keys]_vars

\* C21: a rollover with a well-formed expiry code fails with "not found"
\* when the key does not exist or is another user's and with "must be
\* expired" when the caller's key has not expired; a rollover with a
\* malformed expiry code fails with "invalid expiry format" whatever key it
\* names.  In each case no key is inserted and no key is changed.
C21_RolloverRejected ==
    [][\A c \in Slots : RolloverArrives(c) =>
          LET v == calls'[c] IN
          /\ ~validate_expiry_format(v.expiry) =>
                 /\ v.pc = "done"
                 /\ v.result = "Invalid expiry format"
                 /\ api_keys' = api_keys
          /\ (validate_expiry_format(v.expiry) /\ NotOwned(v.key, v.user)) =>
                 /\ v.pc = "done"
                 /\ v.result = "Expired API key not found"
                 /\ api_keys' = api_keys
          /\ (/\ validate_expiry_format(v.expiry)
              /\ ~NotOwned(v.key, v.user)
              /\ api_keys[v.key].expires_at > now) =>
                 /\ v.pc = "done"
                 /\ v.result = "Key must be expired to rollover"
                 /\ api_keys' = api_keys]_vars

\* a rollover of another user's key, which has expired, was refused
C21_Witness ==
    \E c \in Slots :
        /\ calls[c].op = "rollover"
        /\ calls[c].pc = "done"
        /\ validate_expiry_format(calls[c].expiry)
        /\ calls[c].key \in DOMAIN api_keys
        /\ api_keys[calls[c].key].user_id # calls[c].user
        /\ is_expired(api_keys[calls[c].key], now)
        /\ calls[c].result = "Expired API key not found"

\* the step in which initialize_deposit ends after its call of the gateway
DepositReturns(r) ==
    /\ slots[r].kind = "deposit"
    /\ slots[r].pc = "gateway"
    /\ slots'[r].pc = "done"

\* C22: when the gateway call of a deposit raises, the deposit's row is
\* committed as failed with the error recorded in it, the call ends with the
\* failure and no wallet balance changes; when the call has returned, its
\* row is pending only if the gateway call succeeded.
C22_GatewayFailure ==
    [][\A r \in Slots : DepositReturns(r) =>
          LET s == slots'[r] IN
          /\ wallets' = wallets
          /\ s.result \in {"success", "Deposit initialization failed"}
          /\ s.result = "Deposit initialization failed" =>
                 /\ transactions'[s.tx].status = "failed"
                 /\ transactions'[s.tx].failure_reason # "none"
          /\ transactions'[s.tx].status = "pending" => s.result = "success"]_vars

\* a deposit whose gateway call raised has returned
C22_Witness ==
    \E r \in Slots :
        /\ slots[r].kind = "deposit"
        /\ slots[r].pc = "done"
        /\ slots[r].result = "Deposit initialization failed"
        /\ transactions[slots[r].tx].status = "failed"
        /\ transactions[slots[r].tx].failure_reason = "gateway error"

\* C24: no two deposit rows, which distinct calls of initialize_deposit
\* inserted, carry the same reference.
C24_ReferencesUnique ==
    \A i, j \in DepositRows :
        i # j => transactions[i].reference # transactions[j].reference

\* the step in which a deposit request arrives
DepositArrives(r) ==
    /\ slots[r].kind = "idle"
    /\ slots'[r].kind = "deposit"

\* an amount with more than two fractional digits
ThirdDigit(a) == (a \div 10) * 10 # a

\* C23: a deposit whose amount is not positive, is more than 1,000,000.00,
\* has more than two fractional digits or is less than 50.00 ends with a
\* validation error, and no row is inserted, no balance changes and the
\* gateway is not called; a deposit of exactly 50.00 passes, its row is
\* inserted and the gateway is called next.
C23_DepositValidation ==
    [][\A r \in Slots : DepositArrives(r) =>
          LET s == slots'[r]
              a == s.amount IN
          /\ (a <= 0 \/ a > max_amount \/ ThirdDigit(a) \/ a < min_deposit) =>
                 /\ s.pc = "done"
                 /\ s.result \in {"Invalid deposit amount", "Minimum deposit amount"}
                 /\ transactions' = transactions
                 /\ wallets' = wallets
          /\ a = Naira(50) =>
                 /\ s.pc = "gateway"
                 /\ s.tx \in DOMAIN transactions' \ DOMAIN transactions
                 /\ transactions'[s.tx].status = "pending"]_vars

\* a deposit of 49.99 was refused for the floor
C23_Witness ==
    \E r \in Slots :
        /\ slots[r].kind = "deposit"
        /\ slots[r].pc = "done"
        /\ slots[r].amount = Naira(50) - 10
        /\ slots[r].result = "Minimum deposit amount"
        /\ transactions = << >>

\* C25: for every amount a request carries that has at most two fractional
\* digits and lies in 0 < x <= 1,000,000.00, converting to minor units and
\* back gives the amount again, and the minor units are exactly 100 times
\* the amount; the minor units a deposit row records convert back to the
\* row's amount.
C25_KoboRoundTrip ==
    /\ \A r \in Slots :
           LET a == slots[r].amount IN
           (/\ slots[r].kind \in {"deposit", "transfer"}
            /\ a > 0
            /\ a <= max_amount
            /\ ~ThirdDigit(a)) =>
               /\ convert_kobo_to_naira(convert_naira_to_kobo(a)) = a
               /\ convert_naira_to_kobo(a) * 10 = a
    /\ \A i \in DepositRows :
           convert_kobo_to_naira(transactions[i].paystack_amount_kobo)
               = transactions[i].amount

\* a request carries 49.99, which is 4999 minor units
C25_Witness ==
    \E r \in Slots :
        /\ slots[r].kind = "transfer"
        /\ slots[r].amount = Naira(50) - 10
        /\ convert_naira_to_kobo(slots[r].amount) = 4999
        /\ convert_kobo_to_naira(4999) = slots[r].amount

\* C29 as stated: a transfer to the sender's own wallet, or of an amount
\* that is not positive or has more than two fractional digits, ends with a
\* validation error, inserts no row and changes no balance.
C29_AsStated ==
    [][\A r \in Slots : TransferReturns(r) =>
          LET s == slots[r] IN
          (s.sender = s.recipient \/ s.amount <= 0 \/ ThirdDigit(s.amount)) =>
              /\ slots'[r].result \in
                     {"Invalid transfer amount",
                      "Transfer amount must be greater than zero",
                      "Cannot transfer to your own wallet"}
              /\ transactions' = transactions
              /\ wallets' = wallets]_vars

\* C29: a transfer of an amount that is not positive or has more than two
\* fractional digits ends with the invalid-amount error; a transfer to the
\* sender's own wallet of an amount that passes the validation ends with the
\* own-wallet error when the balance covers the amount and with the
\* insufficient-balance error when it does not.  None of them inserts a row
\* or changes a balance.
C29_TransferRejected ==
    [][\A r \in Slots : TransferReturns(r) =>
          LET s == slots[r]
              a == s.amount
              passes == a > 0 /\ a <= max_amount /\ ~ThirdDigit(a) IN
          /\ (a <= 0 \/ ThirdDigit(a)) =>
                 slots'[r].result = "Invalid transfer amount"
          /\ (s.sender = s.recipient /\ passes /\ a <= s.sbal) =>
                 slots'[r].result = "Cannot transfer to your own wallet"
          /\ (s.sender = s.recipient /\ passes /\ a > s.sbal) =>
                 slots'[r].result = "Insufficient balance"
          /\ (s.sender = s.recipient \/ a <= 0 \/ ThirdDigit(a)) =>
                 /\ transactions' = transactions
                 /\ wallets' = wallets]_vars

\* a transfer to the sender's own wallet, which the balance covers, was
\* refused
C29_Witness ==
    \E r \in Slots :
        /\ slots[r].kind = "transfer"
        /\ slots[r].pc = "done"
        /\ slots[r].sender = slots[r].recipient
        /\ slots[r].amount <= slots[r].sbal
        /\ slots[r].result = "Cannot transfer to your own wallet"
        /\ TransferRows = {}

\* C30 as stated: a transfer of exactly 1,000,000.00, like one of any larger
\* amount, is refused and inserts no row, also when the balance covers it.
C30_AsStated ==
    [][\A r \in Slots : TransferReturns(r) =>
          (slots[r].amount >= max_amount =>
              /\ slots'[r].result # "success"
              /\ transactions' = transactions)]_vars

\* C30: a transfer of more than 1,000,000.00 is refused as invalid; a
\* transfer of exactly 1,000,000.00 to another wallet, which the balance
\* covers, is accepted.
C30_AtMostMaximum ==
    [][\A r \in Slots : TransferReturns(r) =>
          LET s == slots[r] IN
          /\ s.amount > max_amount =>
                 /\ slots'[r].result = "Invalid transfer amount"
                 /\ transactions' = transactions
                 /\ wallets' = wallets
          /\ (/\ s.amount = max_amount
              /\ s.amount <= s.sbal
              /\ s.sender # s.recipient) =>
                 /\ slots'[r].result = "success"
                 /\ slots'[r].tx \in DOMAIN transactions' \ DOMAIN transactions]_vars

\* a transfer of exactly 1,000,000.00 was accepted
C30_Witness ==
    \E r \in Slots :
        /\ TransferSucceeded(r)
        /\ slots[r].amount = max_amount
        /\ slots[r].sender_before >= max_amount
        /\ transactions[slots[r].tx].amount = max_amount

\* C26: in every committed state each user has at most one wallet, also
\* when two requests of a user who has none create it concurrently; the
\* request that commits second ends with the store's error and the user
\* still has one wallet.
C26_OneWalletPerUser ==
    /\ \A u \in Users : Cardinality(WalletsOfUser(u)) <= 1
    /\ \A r \in Slots :
           slots[r].result = "IntegrityError" =>
               Cardinality(WalletsOfUser(slots[r].user)) = 1

\* a first deposit raced a login of the same user and lost
C26_Witness ==
    \E r, q \in Slots :
        /\ slots[r].kind = "deposit"
        /\ slots[r].result = "IntegrityError"
        /\ slots[q].kind = "login"
        /\ slots[q].user = slots[r].user
        /\ slots[q].result = "logged in"
        /\ WalletsOfUser(slots[r].user) = {slots[q].wallet}

\* C27: the plaintext of a key is carried only by the response of the create
\* or rollover call that generated the key; every stored row holds the
\* digest of its key's plaintext and has no column for the plaintext; the
\* responses of list, revoke and validate, and of a rollover or create that
\* was refused, carry no plaintext.
C27_SecretOnlyAtIssue ==
    /\ \A i \in DOMAIN api_keys :
           /\ DOMAIN api_keys[i] =
                  {"user_id", "hashed_key", "expires_at", "revoked",
                   "revoked_at", "last_used_at", "lifetime", "permissions"}
           /\ api_keys[i].hashed_key[1] = "argon2"
           /\ verify_api_key(generate_api_key(i), api_keys[i].hashed_key)
    /\ \A c \in Slots :
           calls[c].secret # 0 =>
               /\ calls[c].op \in {"create", "rollover"}
               /\ calls[c].result = "created"
               /\ calls[c].key \in DOMAIN api_keys
               /\ calls[c].secret = generate_api_key(calls[c].key)

\* a rollover answered with the plaintext of the key it inserted
C27_Witness ==
    \E c \in Slots :
        /\ calls[c].op = "rollover"
        /\ calls[c].pc = "done"
        /\ calls[c].secret # 0
        /\ verify_api_key(calls[c].secret, api_keys[calls[c].key].hashed_key)
        /\ Cardinality(DOMAIN api_keys) >= 2

\* the committed transfer rows once the transfers t and u, each a request's
\* sender, recipient and amount, have run one after the other on the
\* wallets w: a transfer that passes the checks leaves its two pending rows
\* and leaves the committed wallets as they were, so that u runs on w too
SeriallyRows(w, t, u) ==
    LET Left(x) ==
            IF TransferCheck(x.amount, w[x.sender].balance, x.sender, x.recipient) = "ok"
            THEN {[side |-> side, owner |-> IF side = "debit" THEN w[x.sender].user_id
                                            ELSE w[x.recipient].user_id,
                   amount |-> x.amount, status |-> "pending",
                   src |-> x.sender, dst |-> x.recipient] : side \in {"debit", "credit"}}
            ELSE {}
    IN Left(t) \cup Left(u)

\* C28: when two transfers over four distinct wallets have both run, their
\* steps interleaved in any way, the committed balances and the committed
\* transfer rows are those that running the two one after the other, in
\* either order, leaves.
C28_DisjointTransfersCommute ==
    \A r, q \in Slots :
        (/\ r # q
         /\ slots[r].kind = "transfer" /\ slots[r].pc = "done"
         /\ slots[q].kind = "transfer" /\ slots[q].pc = "done"
         /\ {slots[r].sender, slots[r].recipient}
                \cap {slots[q].sender, slots[q].recipient} = {}) =>
            /\ wallets = FourWallets
            /\ {[side |-> transactions[i].transfer_type,
                 owner |-> transactions[i].user_id,
                 amount |-> transactions[i].amount,
                 status |-> transactions[i].status,
                 src |-> transactions[i].source_wallet_id,
                 dst |-> transactions[i].destination_wallet_id] : i \in TransferRows}
                   = SeriallyRows(FourWallets, slots[r], slots[q])
            /\ SeriallyRows(FourWallets, slots[r], slots[q])
                   = SeriallyRows(FourWallets, slots[q], slots[r])
            /\ Cardinality(TransferRows)
                   = Cardinality(SeriallyRows(FourWallets, slots[r], slots[q]))
            /\ \A i, j \in TransferRows :
                   (transactions[i].reference = transactions[j].reference)
                       <=> (transactions[i].source_wallet_id
                                = transactions[j].source_wallet_id)

\* two transfers over disjoint pairs of wallets ran at the same time and
\* both were accepted
C28_Witness ==
    /\ TransferSucceeded(1)
    /\ TransferSucceeded(2)
    /\ slots[1].sender # slots[2].sender
    /\ slots[2].tx < slots[1].tx
    /\ Cardinality(TransferRows) = 4

\* C31: a debit of more than the balance fails with the insufficient-balance
\* error and leaves the balance as it was; any other debit sets the balance
\* to balance - amount, so that a debit of the whole balance leaves 0.
C31_DebitExactly ==
    [][\A r \in Slots :
          (slots[r].kind = "debit" /\ slots[r].pc = "call" /\ slots'[r].pc = "done") =>
              LET b == slots[r].sbal
                  a == slots[r].amount IN
              /\ a > b => /\ slots'[r].result = "Insufficient wallet balance"
                          /\ slots'[r].sbal = b
              /\ a <= b => /\ slots'[r].result = "ok"
                           /\ slots'[r].sbal = b - a
              /\ a = b => slots'[r].sbal = 0]_vars

\* the whole balance of 50.00 was debited
C31_Witness ==
    \E r \in Slots :
        /\ slots[r].kind = "debit"
        /\ slots[r].pc = "done"
        /\ slots[r].sender_before = Naira(50)
        /\ slots[r].amount = Naira(50)
        /\ slots[r].result = "ok"
        /\ slots[r].sbal = 0

\* C32: validate with a plaintext that an active key's hash verifies takes
\* that key, stamps its last_used_at with the current time, changes no other
\* field and no other key, and returns the key with the user the key
\* belongs to; with a plaintext that no active key's hash verifies it
\* answers not-found and changes nothing.
C32_ValidateFrame ==
    [][\A c \in Slots :
          /\ (calls[c].op = "idle" /\ calls'[c].op = "validate") =>
                 LET v == calls'[c]
                     matching == {i \in DOMAIN api_keys :
                                     /\ ~api_keys[i].revoked
                                     /\ api_keys[i].expires_at > now
                                     /\ api_keys[i].hashed_key = <<"argon2", v.plain>>} IN
                 /\ api_keys' = api_keys
                 /\ matching = {} => /\ v.pc = "done"
                                     /\ v.result = "Invalid API key"
                 /\ matching # {} => /\ v.pc = "stamp"
                                     /\ v.key \in matching
                                     /\ v.user = api_keys[v.key].user_id
          /\ (calls[c].pc = "stamp" /\ calls'[c].pc = "done") =>
                 /\ api_keys' = [api_keys EXCEPT ![calls[c].key].last_used_at = now]
                 /\ calls'[c].key = calls[c].key
                 /\ calls'[c].user = api_keys[calls[c].key].user_id]_vars

\* a key was validated and carries the stamp of the hour of its use, which
\* is not the hour of its creation
C32_Witness ==
    \E c \in Slots :
        /\ calls[c].op = "validate"
        /\ calls[c].pc = "done"
        /\ calls[c].result = "valid"
        /\ now > 0
        /\ api_keys[calls[c].key].last_used_at = now
        /\ api_keys[calls[c].key].user_id = calls[c].user

\* the step in which a create or rollover call arrives
IssueArrives(c) ==
    /\ calls[c].op = "idle"
    /\ calls'[c].op \in {"create", "rollover"}

C34_ExpiryGatedOnly ==
    [][\A c \in Slots :
          (/\ RolloverArrives(c)
           /\ validate_expiry_format(calls'[c].expiry)
           /\ ~NotOwned(calls'[c].key, calls'[c].user)) =>
              LET k == api_keys[calls'[c].key] IN
              /\ k.expires_at > now =>
                     /\ calls'[c].pc = "done"
                     /\ calls'[c].result = "Key must be expired to rollover"
              /\ k.expires_at <= now =>
                     /\ calls'[c].pc = "insert"
                     /\ calls'[c].result = "none"]_vars

\* the rollover of a key that is revoked and has expired was accepted
C34_Witness ==
    \E c \in Slots :
        /\ calls[c].op = "rollover"
        /\ calls[c].pc = "insert"
        /\ api_keys[calls[c].key].revoked
        /\ api_keys[calls[c].key].expires_at <= now

\* C35: a rollover that succeeds inserts exactly one key, which is not
\* revoked, belongs to the caller and has the permission set of the expired
\* key; every row the table held, the expired key's among them, is left as
\* it was, so the expired key can be rolled over again.
C35_RolloverFrame ==
    [][\A c \in Slots :
          (/\ calls[c].op = "rollover"
           /\ calls[c].pc = "insert"
           /\ calls'[c].result = "created") =>
              LET k == calls[c].key
                  n == calls'[c].key IN
              /\ n \notin DOMAIN api_keys
              /\ DOMAIN api_keys' = DOMAIN api_keys \cup {n}
              /\ \A i \in DOMAIN api_keys : api_keys'[i] = api_keys[i]
              /\ api_keys'[n].user_id = calls[c].user
              /\ api_keys'[n].user_id = api_keys[k].user_id
              /\ ~api_keys'[n].revoked
              /\ api_keys'[n].permissions = api_keys[k].permissions]_vars

\* a key with two permissions has expired and was rolled over, and three
\* keys of the table have its permissions
C35_Witness ==
    \E c \in Slots :
        /\ calls[c].op = "rollover"
        /\ calls[c].result = "created"
        /\ calls[c].key = 3
        /\ api_keys[1].expires_at <= now
        /\ api_keys[1].permissions = {"deposit", "transfer"}
        /\ api_keys[2].permissions = api_keys[1].permissions
        /\ api_keys[3].permissions = api_keys[1].permissions
        /\ api_keys[2].expires_at > now
        /\ ~api_keys[1].revoked

\* C36: no step deletes a key; a step changes of a key at most revoked and
\* revoked_at, from not revoked to revoked, and last_used_at; and a key that
\* is not active (revoked, or expired) is not active after the step either.
C36_KeysOnlyAge ==
    [][\A i \in DOMAIN api_keys :
          /\ i \in DOMAIN api_keys'
          /\ api_keys'[i].user_id = api_keys[i].user_id
          /\ api_keys'[i].hashed_key = api_keys[i].hashed_key
          /\ api_keys'[i].expires_at = api_keys[i].expires_at
          /\ api_keys'[i].permissions = api_keys[i].permissions
          /\ api_keys[i].revoked =>
                 /\ api_keys'[i].revoked
                 /\ api_keys'[i].revoked_at = api_keys[i].revoked_at
          /\ (api_keys[i].revoked \/ now >= api_keys[i].expires_at) =>
                 (api_keys'[i].revoked \/ now' >= api_keys'[i].expires_at)]_vars

\* the plaintext of a key that has expired and is not revoked was presented
\* and refused
C36_Witness ==
    \E c \in Slots :
        /\ calls[c].op = "validate"
        /\ calls[c].pc = "done"
        /\ calls[c].result = "Invalid API key"
        /\ calls[c].plain \in DOMAIN api_keys
        /\ ~api_keys[calls[c].plain].revoked
        /\ api_keys[calls[c].plain].expires_at <= now
        /\ \E i \in DOMAIN api_keys : api_keys[i].revoked

\* C37: in every committed state the balances of all wallets add up to the
\* amounts of all completed deposits.
C37_MoneyConserved ==
    LET completed == {i \in DepositRows : transactions[i].status = "completed"} IN
    Sum([w \in DOMAIN wallets |-> wallets[w].balance], DOMAIN wallets)
        = Sum([i \in completed |-> transactions[i].amount], completed)

\* C38: a signed charge.success notification whose reference is that of a
\* transfer row never changes a wallet balance and never changes the status
\* of that row.
C38_OnlyDeposits ==
    [][\A r \in Slots :
          (slots[r].kind = "webhook" /\ slots[r].tx \in TransferRows)
              => /\ wallets' = wallets
                 /\ transactions'[slots[r].tx].status
                        = transactions[slots[r].tx].status]_vars

\* the calls of initialize_deposit that have reached the gateway: those
\* waiting for it and those that returned after it answered or raised
AtGateway ==
    {r \in Slots : /\ slots[r].kind = "deposit"
                   /\ \/ slots[r].pc = "gateway"
                      \/ /\ slots[r].pc = "done"
                         /\ slots[r].result \in {"success", "Deposit initialization failed"}}

\* C39: the pending deposit Transaction is committed before the gateway is
\* called: every reference the gateway has been called with is the reference
\* of a committed deposit Transaction of the caller, and no notification for
\* such a reference ends as one whose Transaction was not found.
C39_CommittedBeforeGateway ==
    \A r \in AtGateway :
        /\ slots[r].tx \in DepositRows
        /\ transactions[slots[r].tx].reference = slots[r].reference
        /\ transactions[slots[r].tx].user_id = slots[r].user
        /\ transactions[slots[r].tx].amount = slots[r].amount
        /\ \A q \in Slots :
              (/\ slots[q].kind = "webhook" /\ slots[q].event = "charge.success"
               /\ slots[q].reference = slots[r].reference)
                  => slots[q].tx \in RowsByReference(slots[r].reference)

\* a notification for the reference of a deposit still waiting for the
\* gateway has found the Transaction
C39_Witness ==
    \E r, q \in Slots :
        /\ slots[r].kind = "deposit" /\ slots[r].pc = "gateway"
        /\ slots[q].kind = "webhook" /\ slots[q].reference = slots[r].reference
        /\ slots[q].pc = "find_wallet" /\ slots[q].tx = slots[r].tx

\* C40: every notification that is being handled ends with success or error
\* reported, and when a signed charge.success notification with the matching
\* amount has found a pending deposit Transaction whose depositor has a
\* wallet, that Transaction eventually is completed.
C40_WebhookTerminates ==
    /\ \A r \in Slots :
          (slots[r].kind = "webhook")
              ~> (/\ slots[r].kind = "webhook" /\ slots[r].pc = "done"
                  /\ slots[r].result \in {"success", "error"})
    /\ \A r \in Slots, i \in 1..MaxDeposits :
          (/\ slots[r].kind = "webhook" /\ slots[r].signature = "hmac"
           /\ slots[r].event = "charge.success" /\ slots[r].pc = "find_wallet"
           /\ slots[r].tx = i /\ slots[r].txstatus = "pending"
           /\ i \in DepositRows
           /\ convert_kobo_to_naira(slots[r].kobo) = transactions[i].amount
           /\ WalletsOfUser(transactions[i].user_id) # {})
              ~> (i \in DepositRows /\ transactions[i].status = "completed")

\* a notification has ended with success after it credited the wallet of a
\* deposit it found pending
C40_Witness ==
    \E r \in Slots :
        /\ slots[r].kind = "webhook" /\ slots[r].pc = "done"
        /\ slots[r].result = "success" /\ slots[r].signature = "hmac"
        /\ slots[r].tx \in DepositRows
        /\ credits[slots[r].tx] >= 1
        /\ transactions[slots[r].tx].status = "completed"
        /\ convert_kobo_to_naira(slots[r].kobo) = transactions[slots[r].tx].amount

============================================================================
